---- MODULE Spec2Model ----
(***************************************************************************)
(* Model of src/release.py: the errbot plugin `Release`, which cuts a      *)
(* release across JIRA (tracker), a local git clone and GitHub (code       *)
(* host).  Strings whose contents the code inspects (version names, the    *)
(* changelog) are sequences of one-character strings.                      *)
(***************************************************************************)
EXTENDS Integers, Sequences, FiniteSets, TLC

\* ------------------------------------------------------------------ bounds

\* Largest value of one component of a version drawn for bump_version.
MaxComp == 10
\* Number of issues of the project.
NumIssues == 2
\* Number of sequential invocations of `version`.
MaxRuns == 2
\* Number of edits other tracker users make during one run.
MaxOtherEdits == 1

\* --------------------------------------------------------------- constants

\* Indices of bump_version (its local names MAJOR, MINOR, PATCH).
MAJOR == 0
MINOR == 1
PATCH == 2

\* The --project-key argument of the bot command.
PROJECT_KEY == "FOO"

\* ------------------------------------------------------ strings (Python)

Digits == <<"0", "1", "2", "3", "4", "5", "6", "7", "8", "9">>

IsDigit(c) == \E i \in 1..10 : Digits[i] = c

DigitVal(c) == (CHOOSE i \in 1..10 : Digits[i] = c) - 1

\* str(n) for a non-negative int: its decimal digits.
RECURSIVE str(_)
str(n) == IF n < 10 THEN <<Digits[n + 1]>>
          ELSE str(n \div 10) \o <<Digits[(n % 10) + 1]>>

\* int(s) succeeds on a non-empty run of decimal digits (leading zeros
\* allowed) and raises ValueError otherwise.
IntOk(s) == Len(s) > 0 /\ \A i \in 1..Len(s) : IsDigit(s[i])

RECURSIVE int(_)
int(s) == IF Len(s) = 0 THEN 0
          ELSE 10 * int(SubSeq(s, 1, Len(s) - 1)) + DigitVal(s[Len(s)])

\* Position of the first sep in s, 0 when there is none.
Find(s, sep) == IF \E i \in 1..Len(s) : s[i] = sep
                THEN CHOOSE i \in 1..Len(s) :
                        s[i] = sep /\ \A j \in 1..(i - 1) : s[j] # sep
                ELSE 0

\* s.split(sep, maxsplit): at most maxsplit splits, left to right; the rest
\* of the string, separators included, is the last element.
RECURSIVE split(_, _, _)
split(s, sep, maxsplit) ==
    IF maxsplit = 0 \/ Find(s, sep) = 0 THEN <<s>>
    ELSE <<SubSeq(s, 1, Find(s, sep) - 1)>>
         \o split(SubSeq(s, Find(s, sep) + 1, Len(s)), sep, maxsplit - 1)

\* sep.join(parts)
RECURSIVE join(_, _)
join(sep, parts) ==
    IF Len(parts) = 0 THEN <<>>
    ELSE IF Len(parts) = 1 THEN parts[1]
    ELSE parts[1] \o <<sep>> \o join(sep, Tail(parts))

\* The serialisation "<major>.<minor>.<patch>" of a triple.
VersionString(t) == join(".", <<str(t[1]), str(t[2]), str(t[3])>>)

\* ------------------------------------------------------------ bump_version

\* vars()[release_type.upper()]
ReleaseTypeIndex(release_type) ==
    CASE release_type = "Major" -> MAJOR
      [] release_type = "Minor" -> MINOR
      [] release_type = "Patch" -> PATCH

Zeros(n) == [i \in 1..n |-> 0]

\* version_array[release_type] += 1  (0-based index rt)
IncrementAt(version_array, rt) ==
    [version_array EXCEPT ![rt + 1] = @ + 1]

\* Faulty variant of ZeroLower: the components after the bumped one are kept.
ZeroLowerKeep(version_array, rt) == version_array

\* version_array[release_type+1:] = [0] * (PATCH - release_type): the slice
\* from rt+1 to the end is replaced by PATCH - rt zeros, whatever its length.
ZeroLower(version_array, rt) ==
    SubSeq(version_array, 1, rt + 1) \o Zeros(PATCH - rt)

Raised(exc) == [ok |-> FALSE, exc |-> exc, value |-> <<>>]
Returned(v) == [ok |-> TRUE, exc |-> "", value |-> v]

bump_version(version, release_type) ==
    LET rt    == ReleaseTypeIndex(release_type)
        parts == split(version, ".", 2)
    IN  IF \E i \in 1..Len(parts) : ~IntOk(parts[i])
        THEN Raised("ValueError")
        ELSE LET version_array == [i \in 1..Len(parts) |-> int(parts[i])]
             IN  IF rt + 1 > Len(version_array)
                 THEN Raised("IndexError")
                 ELSE Returned(join(".",
                        LET bumped == ZeroLower(IncrementAt(version_array, rt), rt)
                        IN  [i \in 1..Len(bumped) |-> str(bumped[i])]))

\* ------------------------------------------------------------------ state

VARIABLES
    jiraVersions,           \* tracker: the project's version resources, in order
    issues,                 \* tracker: issue id -> IssueRecord
    changelog,              \* the CHANGELOG.md file of the local clone
    master,                 \* local clone: head of branch master
    originMaster,           \* remote: head of master
    originDevelop,          \* remote: head of develop
    localTags,              \* local clone: tags
    gitRefs,                \* code host: tag refs, [ref, sha]
    gitReleases,            \* code host: releases, [tag, name, message]
    pc,                     \* position of the current `version` call
    jira_previous_version,  \* locals of `version`
    release_type,
    jira_new_version,
    release_notes,
    commit_hash,
    result,                 \* what the call gave its caller
    trace,                  \* external calls of the current run, in order
    runs,                   \* calls of `version` started so far
    otherEdits,             \* edits by other tracker users in this run
    qualifyingAtS0,         \* history: the issues the S0 searches ranged over
    changelog_calls         \* history: the calls of update_changelog_file

vars == <<jiraVersions, issues, changelog, master, originMaster, originDevelop,
          localTags, gitRefs, gitReleases, pc, jira_previous_version,
          release_type, jira_new_version, release_notes, commit_hash, result,
          trace, runs, otherEdits, qualifyingAtS0, changelog_calls>>

trackerVars == <<jiraVersions, issues>>
gitVars     == <<changelog, master, originMaster, originDevelop, localTags>>
hostVars    == <<gitRefs, gitReleases>>
histVars    == <<otherEdits, qualifyingAtS0, changelog_calls>>
localVars   == <<jira_previous_version, release_type, jira_new_version,
                 release_notes, commit_hash>>

IssueIds == 1..NumIssues

ReleaseTypes == <<"Major", "Minor", "Patch">>

\* A local variable of `version`: unbound until its assignment completes.
Unbound  == [bound |-> FALSE, val |-> <<>>]
Bound(v) == [bound |-> TRUE, val |-> v]

\* One external call of the run: the stage it belongs to, the operation, the
\* issue it is about (0: none) and whether it succeeded.
Call(stage, op, arg, ok) == [stage |-> stage, op |-> op, arg |-> arg, ok |-> ok]

\* The outcome of `version`: nothing yet, a returned message, or an exception
\* that propagated out of it.
NoResult == [kind |-> "none", message |-> "", failed_command |-> "",
             project_key |-> "", version |-> <<>>, exc |-> ""]

RaisedOut(exc) == [NoResult EXCEPT !.kind = "raised", !.exc = exc]

\* ------------------------------------------------------- tracker queries

Qualifying(iss, i) ==
    /\ iss[i].status = "closed"
    /\ iss[i].resolution \in {"Fixed", "Done"}
    /\ iss[i].fixVersions = {}

\* The JQL of get_jira_release_type for one release type.
SearchReleaseType(iss, rtype) ==
    {i \in DOMAIN iss : Qualifying(iss, i) /\ iss[i].release_type = rtype}

\* The JQL of set_jira_fix_version.
SearchNoFixVersion(iss) == {i \in DOMAIN iss : Qualifying(iss, i)}

\* The JQL of get_jira_release_notes.
SearchFixVersion(iss, name) == {i \in DOMAIN iss : name \in iss[i].fixVersions}

\* A set of issue ids as the list a search returns (ascending id).
RECURSIVE SortedIds(_)
SortedIds(S) ==
    IF S = {} THEN <<>>
    ELSE LET m == CHOOSE x \in S : \A y \in S : x <= y
         IN  <<m>> \o SortedIds(S \ {m})

\* The loop of get_jira_release_type from the k-th release type on: the first
\* type whose search is non-empty, else NoJIRAIssuesFoundError.
RECURSIVE ReleaseTypeFrom(_, _)
ReleaseTypeFrom(iss, k) ==
    IF k > Len(ReleaseTypes) THEN Raised("NoJIRAIssuesFoundError")
    ELSE IF Cardinality(SearchReleaseType(iss, ReleaseTypes[k])) > 0
         THEN Returned(ReleaseTypes[k])
         ELSE ReleaseTypeFrom(iss, k + 1)

\* Faulty variant of get_jira_release_type: the release types are tried from
\* Patch up, so the least one found is returned.
get_jira_release_type_lowest(iss) ==
    IF SearchReleaseType(iss, "Patch") # {} THEN Returned("Patch")
    ELSE IF SearchReleaseType(iss, "Minor") # {} THEN Returned("Minor")
    ELSE IF SearchReleaseType(iss, "Major") # {} THEN Returned("Major")
    ELSE Raised("NoJIRAIssuesFoundError")

\* Faulty variant of get_jira_release_type: Patch when no search finds an
\* issue, instead of NoJIRAIssuesFoundError.
get_jira_release_type_default(iss) ==
    IF ReleaseTypeFrom(iss, 1).ok THEN ReleaseTypeFrom(iss, 1)
    ELSE Returned("Patch")

get_jira_release_type(iss) == ReleaseTypeFrom(iss, 1)

\* How many searches the loop of get_jira_release_type makes.
SearchesMade(iss) ==
    IF \E k \in 1..Len(ReleaseTypes) : SearchReleaseType(iss, ReleaseTypes[k]) # {}
    THEN CHOOSE k \in 1..Len(ReleaseTypes) :
            /\ SearchReleaseType(iss, ReleaseTypes[k]) # {}
            /\ \A j \in 1..(k - 1) : SearchReleaseType(iss, ReleaseTypes[j]) = {}
    ELSE Len(ReleaseTypes)

\* ------------------------------------------------------------ Init

V123 == VersionString(<<1, 2, 3>>)

\* The issue records the project starts with: qualifying issues of each
\* release type (and of none), and issues that do not qualify.
IssueProfiles ==
    {[status |-> "closed", resolution |-> "Fixed", release_type |-> t,
      fixVersions |-> {}] : t \in {"Major", "Minor", "Patch", "None"}}
    \cup {[status |-> "open", resolution |-> "Unresolved",
           release_type |-> "Major", fixVersions |-> {}],
          [status |-> "closed", resolution |-> "Done",
           release_type |-> "Minor", fixVersions |-> {V123}]}

\* The version lists the tracker may hold before the first run: none, or the
\* previous release.
InitVersionLists == {<<>>, <<[name |-> V123]>>}

InitLocals ==
    /\ jira_previous_version = Unbound
    /\ release_type = Unbound
    /\ jira_new_version = Unbound
    /\ release_notes = Unbound
    /\ commit_hash = Unbound
    /\ result = NoResult
    /\ trace = <<>>

InitHistory ==
    /\ otherEdits = 0
    /\ qualifyingAtS0 = {}
    /\ changelog_calls = <<>>

InitRepos ==
    /\ changelog = <<"#">>
    /\ master = <<>>
    /\ originMaster = <<>>
    /\ originDevelop = <<>>
    /\ localTags = {}
    /\ gitRefs = {}
    /\ gitReleases = {}

Init ==
    /\ jiraVersions \in InitVersionLists
    /\ issues \in [IssueIds -> IssueProfiles]
    /\ InitRepos
    /\ InitLocals
    /\ pc = "idle"
    /\ runs = 0
    /\ InitHistory

\* ------------------------------------------------------------ version()

\* Leave the try block of `version` by an exception: JIRAError goes to its
\* handler (line 152), anything else propagates to the caller.
RaiseInTry(exc) ==
    IF exc = "JIRAError"
    THEN /\ pc' = "except_jira"
         /\ result' = result
    ELSE /\ pc' = "done"
         /\ result' = RaisedOut(exc)

\* The bot command is invoked.
StartRun ==
    /\ pc \in {"idle", "done"}
    /\ runs < MaxRuns
    /\ runs' = runs + 1
    /\ pc' = "project"
    /\ jira_previous_version' = Unbound
    /\ release_type' = Unbound
    /\ jira_new_version' = Unbound
    /\ release_notes' = Unbound
    /\ commit_hash' = Unbound
    /\ result' = NoResult
    /\ trace' = <<>>
    /\ otherEdits' = 0
    /\ qualifyingAtS0' = {}
    /\ UNCHANGED <<trackerVars, gitVars, hostVars, changelog_calls>>

\* project_name = self.jira_client.project(project_key).name
GetProject ==
    /\ pc = "project"
    /\ \E ok \in BOOLEAN :
        /\ trace' = Append(trace, Call("S0", "jira.project", 0, ok))
        /\ IF ok THEN pc' = "latest_version" /\ result' = result
                 ELSE RaiseInTry("JIRAError")
    /\ UNCHANGED <<trackerVars, gitVars, hostVars, localVars, runs, histVars>>

\* Faulty variant of get_jira_latest_version: the first version of the list.
get_jira_latest_version_first(versions) == versions[1]

\* self.jira_client.project_versions(project_key)[-1]
get_jira_latest_version(versions) == versions[Len(versions)]

\* jira_previous_version = self.get_jira_latest_version(project_key):
\* project_versions(project_key)[-1], IndexError on an empty list.
GetLatestVersion ==
    /\ pc = "latest_version"
    /\ \E ok \in BOOLEAN :
        /\ trace' = Append(trace, Call("S0", "jira.project_versions", 0, ok))
        /\ IF ~ok
           THEN RaiseInTry("JIRAError") /\ UNCHANGED jira_previous_version
           ELSE IF Len(jiraVersions) = 0
           THEN RaiseInTry("IndexError") /\ UNCHANGED jira_previous_version
           ELSE /\ jira_previous_version' =
                        Bound(get_jira_latest_version(jiraVersions).name)
                /\ pc' = "release_type"
                /\ result' = result
    /\ UNCHANGED <<trackerVars, gitVars, hostVars, release_type,
                   jira_new_version, release_notes, commit_hash, runs, histVars>>

\* The searches of one call of get_jira_release_type: n of them, the last
\* one failing when ~ok.
ReleaseTypeCalls(n, ok) ==
    [k \in 1..n |-> Call("S0", "jira.search_issues", 0, ok \/ k < n)]

\* release_type = self.get_jira_release_type(project_key)
ResolveReleaseType ==
    /\ pc = "release_type"
    /\ \/ \* every search answers
          /\ trace' = trace \o ReleaseTypeCalls(SearchesMade(issues), TRUE)
          /\ LET r == get_jira_release_type(issues)
             IN  IF r.ok
                 THEN /\ release_type' = Bound(r.value)
                      /\ qualifyingAtS0' = SearchNoFixVersion(issues)
                      /\ pc' = "create_version"
                      /\ result' = result
                 ELSE /\ RaiseInTry(r.exc)
                      /\ UNCHANGED <<release_type, qualifyingAtS0>>
       \/ \* the n-th search raises JIRAError
          \E n \in 1..SearchesMade(issues) :
            /\ trace' = trace \o ReleaseTypeCalls(n, FALSE)
            /\ RaiseInTry("JIRAError")
            /\ UNCHANGED <<release_type, qualifyingAtS0>>
    /\ UNCHANGED <<trackerVars, gitVars, hostVars, jira_previous_version,
                   jira_new_version, release_notes, commit_hash, runs,
                   otherEdits, changelog_calls>>

\* jira_new_version = self.jira_client.create_version(
\*     Release.bump_version(jira_previous_version.name, release_type), ...)
CreateVersion ==
    /\ pc = "create_version"
    /\ LET b == bump_version(jira_previous_version.val, release_type.val)
       IN  IF ~b.ok
           THEN /\ RaiseInTry(b.exc)
                /\ UNCHANGED <<jiraVersions, jira_new_version, trace>>
           ELSE \E ok \in BOOLEAN :
                /\ trace' = Append(trace, Call("S1", "jira.create_version", 0, ok))
                /\ IF ok
                   THEN /\ jiraVersions' = Append(jiraVersions, [name |-> b.value])
                        /\ jira_new_version' = Bound(b.value)
                        /\ pc' = "fix_version"
                        /\ result' = result
                   ELSE /\ RaiseInTry("JIRAError")
                        /\ UNCHANGED <<jiraVersions, jira_new_version>>
    /\ UNCHANGED <<issues, gitVars, hostVars, jira_previous_version,
                   release_type, release_notes, commit_hash, runs, histVars>>

\* The calls of set_jira_fix_version on the issue list ids: the search, then
\* for each issue Reopen Issue, issue.update, Close Issue.
FixVersionOps == <<"transition_issue Reopen Issue", "issue.update",
                   "transition_issue Close Issue">>

FixVersionCalls(ids) ==
    [k \in 1..(1 + 3 * Len(ids)) |->
        IF k = 1 THEN Call("S2", "jira.search_issues", 0, TRUE)
        ELSE Call("S2", FixVersionOps[((k - 2) % 3) + 1],
                  ids[((k - 2) \div 3) + 1], TRUE)]

\* Faulty variant of Executed: the calls after the failing one run as well.
ExecutedAll(calls, n, ok) ==
    [k \in 1..Len(calls) |->
        IF k = n /\ ~ok THEN [calls[k] EXCEPT !.ok = FALSE] ELSE calls[k]]

\* The first n calls of a call list, the last of them failing when ~ok.
Executed(calls, n, ok) ==
    [k \in 1..n |-> IF k = n /\ ~ok THEN [calls[k] EXCEPT !.ok = FALSE]
                    ELSE calls[k]]

\* Faulty variant of Retagged: the Close Issue transition has no effect.
RetaggedLeftOpen(issue, steps, new_version) ==
    [issue EXCEPT
        !.status = IF steps >= 1 THEN "reopened" ELSE @,
        !.fixVersions = IF steps >= 2 THEN @ \cup {new_version} ELSE @]

\* One issue after the first `steps` of its three calls succeeded.
Retagged(issue, steps, new_version) ==
    [issue EXCEPT
        !.status = IF steps >= 3 THEN "closed"
                   ELSE IF steps >= 1 THEN "reopened" ELSE @,
        !.fixVersions = IF steps >= 2 THEN @ \cup {new_version} ELSE @]

Min(a, b) == IF a < b THEN a ELSE b
Max(a, b) == IF a > b THEN a ELSE b

\* The issues after the first m per-issue calls of set_jira_fix_version on
\* the list ids succeeded.
set_jira_fix_version(iss, ids, m, new_version) ==
    [i \in DOMAIN iss |->
        IF \E j \in 1..Len(ids) : ids[j] = i
        THEN LET j == CHOOSE j \in 1..Len(ids) : ids[j] = i
             IN  Retagged(iss[i], Min(3, Max(0, m - 3 * (j - 1))), new_version)
        ELSE iss[i]]

\* self.set_jira_fix_version(project_key, jira_new_version.name)
SetFixVersion ==
    /\ pc = "fix_version"
    /\ LET ids   == SortedIds(SearchNoFixVersion(issues))
           calls == FixVersionCalls(ids)
       IN  \/ \* every call succeeds
              /\ trace' = trace \o calls
              /\ issues' = set_jira_fix_version(issues, ids, 3 * Len(ids),
                                                jira_new_version.val)
              /\ pc' = "release_notes"
              /\ result' = result
           \/ \* the f-th call raises JIRAError
              \E f \in 1..Len(calls) :
                /\ trace' = trace \o Executed(calls, f, FALSE)
                /\ issues' = set_jira_fix_version(issues, ids, Max(0, f - 2),
                                                  jira_new_version.val)
                /\ RaiseInTry("JIRAError")
    /\ UNCHANGED <<jiraVersions, gitVars, hostVars, localVars, runs, histVars>>

\* template.render(...): the text of the release notes, a function of the
\* version name and of the issues the version is attached to.
RECURSIVE IdsText(_)
IdsText(ids) == IF Len(ids) = 0 THEN <<>>
                ELSE <<" ">> \o str(Head(ids)) \o IdsText(Tail(ids))

render(version_number, ids) == version_number \o <<":">> \o IdsText(ids)

\* release_notes = self.get_jira_release_notes(jira_new_version)
RenderReleaseNotes ==
    /\ pc = "release_notes"
    /\ LET calls == <<Call("S3", "jira.project", 0, TRUE),
                      Call("S3", "jira.search_issues", 0, TRUE)>>
       IN  \/ /\ trace' = trace \o calls
              /\ release_notes' = Bound(render(jira_new_version.val,
                    SortedIds(SearchFixVersion(issues, jira_new_version.val))))
              /\ pc' = "git_release"
              /\ result' = result
           \/ \E f \in 1..Len(calls) :
                /\ trace' = trace \o Executed(calls, f, FALSE)
                /\ RaiseInTry("JIRAError")
                /\ UNCHANGED release_notes
    /\ UNCHANGED <<trackerVars, gitVars, hostVars, jira_previous_version,
                   release_type, jira_new_version, commit_hash, runs, histVars>>

\* ------------------------------------------------- delete_jira_version()

\* version.delete(): the resource leaves the project and every issue it is
\* attached to.
VersionsWithout(versions, name) ==
    SelectSeq(versions, LAMBDA v : v.name # name)

IssuesWithout(iss, name) ==
    [i \in DOMAIN iss |-> [iss[i] EXCEPT !.fixVersions = @ \ {name}]]

\* 'Unable to complete %s operation for project_key=%s. JIRA version deleted.'
DeletedMessage(failed_command, project_key) ==
    [NoResult EXCEPT !.kind = "returned",
                     !.message = "operation failed, version deleted",
                     !.failed_command = failed_command,
                     !.project_key = project_key]

\* Faulty variant of CleanupFailedMessage: the version name is left out.
CleanupFailedMessageNoName(failed_command, project_key, name) ==
    [NoResult EXCEPT !.kind = "returned",
                     !.message = "request failed, cleanup failed",
                     !.failed_command = "JIRA",
                     !.project_key = project_key]

\* 'Unable to complete JIRA request for project_key={} and unable to clean up
\* new version={}': the text names JIRA whatever failed_command is.
CleanupFailedMessage(failed_command, project_key, name) ==
    [NoResult EXCEPT !.kind = "returned",
                     !.message = "request failed, cleanup failed",
                     !.failed_command = "JIRA",
                     !.project_key = project_key,
                     !.version = name]

\* Release.delete_jira_version(project_key, version, failed_command), whose
\* value `version` returns.
DeleteJiraVersion(failed_command) ==
    \E ok \in BOOLEAN :
        /\ trace' = Append(trace, Call("undo", "version.delete", 0, ok))
        /\ IF ok
           THEN /\ jiraVersions' = VersionsWithout(jiraVersions, jira_new_version.val)
                /\ issues' = IssuesWithout(issues, jira_new_version.val)
                /\ result' = DeletedMessage(failed_command, PROJECT_KEY)
           ELSE /\ UNCHANGED trackerVars
                /\ result' = CleanupFailedMessage(failed_command, PROJECT_KEY,
                                                  jira_new_version.val)
        /\ pc' = "done"

\* except JIRAError (line 152): the handler reads jira_new_version, which is
\* unbound when the exception came before create_version returned.
HandleJIRAError ==
    /\ pc = "except_jira"
    /\ IF jira_new_version.bound
       THEN DeleteJiraVersion("JIRA")
       ELSE /\ result' = RaisedOut("UnboundLocalError")
            /\ pc' = "done"
            /\ UNCHANGED <<trackerVars, trace>>
    /\ UNCHANGED <<gitVars, hostVars, localVars, runs, histVars>>

\* Faulty variant of HandleGitError: the report is returned without calling
\* delete_jira_version.
HandleGitErrorNoUndo ==
    /\ pc = "except_git"
    /\ result' = DeletedMessage("git", PROJECT_KEY)
    /\ pc' = "done"
    /\ UNCHANGED <<trackerVars, trace, gitVars, hostVars, localVars, runs, histVars>>

\* Faulty variant of HandleGitError: failed_command is left at its default.
HandleGitErrorDefaultTag ==
    /\ pc = "except_git"
    /\ DeleteJiraVersion("JIRA")
    /\ UNCHANGED <<gitVars, hostVars, localVars, runs, histVars>>

\* except subprocess.CalledProcessError (line 164)
HandleGitError ==
    /\ pc = "except_git"
    /\ DeleteJiraVersion("git")
    /\ UNCHANGED <<gitVars, hostVars, localVars, runs, histVars>>

\* ------------------------------------- git_merge_and_create_release_commit()

\* One call of update_changelog_file: what it read, the notes it was given,
\* and whether it returned.
ChangelogCall(original_contents, notes, ok) ==
    [original_contents |-> original_contents, release_notes |-> notes,
     ok |-> ok]

\* Faulty variant of update_changelog_file: the notes are written after the
\* original contents.
update_changelog_file_append(original_contents, notes) ==
    original_contents \o <<"\n">> \o notes

\* changelog.write(release_notes + "\n" + original_contents)
update_changelog_file(original_contents, notes) ==
    notes \o <<"\n">> \o original_contents

\* The git commands of git_merge_and_create_release_commit, in order: the
\* seven of the loop, then rev-parse.
ReleaseCommands == <<"git fetch", "git checkout release", "git add",
                     "git commit", "git checkout master", "git merge",
                     "git push", "git rev-parse">>

GitCalls(stage, commands) ==
    [k \in 1..Len(commands) |-> Call(stage, commands[k], 0, TRUE)]

\* The commit a successful `merge --no-ff release-<version>` leaves on master.
MergeCommit(version_number) == <<"m">> \o version_number

\* Local master after the first n release commands succeeded.
MasterAfter(n, version_number) ==
    IF n >= 6 THEN MergeCommit(version_number)
    ELSE IF n >= 5 THEN originMaster
    ELSE master

\* origin/master after the first n release commands succeeded.
OriginMasterAfter(n, version_number) ==
    IF n >= 7 THEN MergeCommit(version_number) ELSE originMaster

\* commit_hash = self.git_merge_and_create_release_commit(project_root,
\*     jira_new_version.name, release_notes).  The list of argument vectors is
\* built first, update_changelog_file included, and then the commands run.
GitMergeAndCreateReleaseCommit ==
    /\ pc = "git_release"
    /\ \/ \* open(changelog_filename, 'r') or read() raises OSError
          /\ trace' = Append(trace, Call("S4", "changelog read", 0, FALSE))
          /\ result' = RaisedOut("OSError")
          /\ pc' = "done"
          /\ UNCHANGED <<gitVars, commit_hash, changelog_calls>>
       \/ \* open(changelog_filename, 'w') or write() raises OSError: the
          \* file is as it was, or truncated
          /\ trace' = trace \o <<Call("S4", "changelog read", 0, TRUE),
                                 Call("S4", "changelog write", 0, FALSE)>>
          /\ changelog' \in {changelog, <<>>}
          /\ changelog_calls' = Append(changelog_calls,
                ChangelogCall(changelog, release_notes.val, FALSE))
          /\ result' = RaisedOut("OSError")
          /\ pc' = "done"
          /\ UNCHANGED <<master, originMaster, originDevelop, localTags,
                         commit_hash>>
       \/ \* the changelog is written; then the commands run, the f-th
          \* exiting non-zero (0: none)
          \E f \in 0..Len(ReleaseCommands) :
            LET n     == IF f = 0 THEN Len(ReleaseCommands) ELSE f - 1
                calls == GitCalls("S4", ReleaseCommands)
            IN  /\ changelog' = update_changelog_file(changelog, release_notes.val)
                /\ changelog_calls' = Append(changelog_calls,
                      ChangelogCall(changelog, release_notes.val, TRUE))
                /\ trace' = trace
                      \o <<Call("S4", "changelog read", 0, TRUE),
                           Call("S4", "changelog write", 0, TRUE)>>
                      \o (IF f = 0 THEN calls ELSE Executed(calls, f, FALSE))
                /\ master' = MasterAfter(n, jira_new_version.val)
                /\ originMaster' = OriginMasterAfter(n, jira_new_version.val)
                /\ IF f = 0
                   THEN /\ commit_hash' = Bound(master')
                        /\ pc' = "get_repo"
                   ELSE /\ UNCHANGED commit_hash
                        /\ pc' = "except_git"
                /\ result' = result
                /\ UNCHANGED <<originDevelop, localTags>>
    /\ UNCHANGED <<trackerVars, hostVars, jira_previous_version, release_type,
                   jira_new_version, release_notes, runs, otherEdits,
                   qualifyingAtS0>>

\* ------------------------------------------------------- publication (S5)

TagName(version_number) == <<"v">> \o version_number

\* Faulty variant of Unguarded: a failed call is ignored and the run goes on.
UnguardedSwallow(stage, op, ok, exc, next) ==
    /\ trace' = Append(trace, Call(stage, op, 0, ok))
    /\ pc' = next
    /\ result' = result

\* One external call outside any try block: its exception propagates.
Unguarded(stage, op, ok, exc, next) ==
    /\ trace' = Append(trace, Call(stage, op, 0, ok))
    /\ IF ok THEN pc' = next /\ result' = result
             ELSE pc' = "done" /\ result' = RaisedOut(exc)

\* repo = self.github_client.get_organization(...).get_repo(project_name)
GetRepo ==
    /\ pc = "get_repo"
    /\ \E ok \in BOOLEAN :
        Unguarded("S5", "github.get_repo", ok, "GithubException", "git_tag")
    /\ UNCHANGED <<trackerVars, gitVars, hostVars, localVars, runs, histVars>>

\* self.git_create_tag(project_root, jira_new_version.name)
GitCreateTag ==
    /\ pc = "git_tag"
    /\ \E ok \in BOOLEAN :
        /\ Unguarded("S5", "git tag", ok, "CalledProcessError", "git_ref")
        /\ localTags' = IF ok THEN localTags \cup {TagName(jira_new_version.val)}
                        ELSE localTags
    /\ UNCHANGED <<trackerVars, changelog, master, originMaster, originDevelop,
                   hostVars, localVars, runs, histVars>>

\* ref = repo.create_git_ref('refs/tags/v<version>', commit_hash)
CreateGitRef ==
    /\ pc = "git_ref"
    /\ \E ok \in BOOLEAN :
        /\ Unguarded("S5", "repo.create_git_ref", ok, "GithubException",
                     "git_release_entry")
        /\ gitRefs' = IF ok
                      THEN gitRefs \cup {[ref |-> TagName(jira_new_version.val),
                                          sha |-> commit_hash.val]}
                      ELSE gitRefs
    /\ UNCHANGED <<trackerVars, gitVars, gitReleases, localVars, runs, histVars>>

\* release = repo.create_git_release(tag='v<version>', name=..., message=...)
CreateGitRelease ==
    /\ pc = "git_release_entry"
    /\ \E ok \in BOOLEAN :
        /\ Unguarded("S5", "repo.create_git_release", ok, "GithubException",
                     "merge_develop")
        /\ gitReleases' = IF ok
                          THEN gitReleases \cup
                                 {[tag |-> TagName(jira_new_version.val),
                                   name |-> jira_new_version.val,
                                   message |-> release_notes.val]}
                          ELSE gitReleases
    /\ UNCHANGED <<trackerVars, gitVars, gitRefs, localVars, runs, histVars>>

\* ------------------------------------------- git_merge_master_to_develop()

DevelopCommands == <<"git fetch", "git checkout develop",
                     "git merge origin/master", "git push develop">>

\* The green card of send_card.
SuccessMessage(project_key, name) ==
    [NoResult EXCEPT !.kind = "returned",
                     !.message = "release completed",
                     !.project_key = project_key,
                     !.version = TagName(name)]

\* Release.git_merge_master_to_develop(project_root); return self.send_card(...)
GitMergeMasterToDevelop ==
    /\ pc = "merge_develop"
    /\ LET calls == GitCalls("S6", DevelopCommands)
       IN  \/ /\ trace' = trace \o calls
              /\ originDevelop' = originMaster
              /\ result' = SuccessMessage(PROJECT_KEY, jira_new_version.val)
           \/ \E f \in 1..Len(calls) :
                /\ trace' = trace \o Executed(calls, f, FALSE)
                /\ UNCHANGED originDevelop
                /\ result' = RaisedOut("CalledProcessError")
    /\ pc' = "done"
    /\ UNCHANGED <<trackerVars, changelog, master, originMaster, localTags,
                   hostVars, localVars, runs, histVars>>

\* ------------------------------------------------- other tracker users

\* Another user of the tracker closes an open issue as Fixed while the run
\* stands between the searches of get_jira_release_type and the search of
\* set_jira_fix_version, which reads the tracker anew.
OtherUserClosesIssue ==
    /\ pc \in {"create_version", "fix_version"}
    /\ otherEdits < MaxOtherEdits
    /\ \E i \in IssueIds :
        /\ issues[i].status = "open"
        /\ issues' = [issues EXCEPT ![i].status = "closed",
                                    ![i].resolution = "Fixed"]
    /\ otherEdits' = otherEdits + 1
    /\ UNCHANGED <<jiraVersions, gitVars, hostVars, localVars, pc, result,
                   trace, runs, qualifyingAtS0, changelog_calls>>

\* ------------------------------------------------------------ specification

Next ==
    \/ StartRun
    \/ GetProject
    \/ GetLatestVersion
    \/ ResolveReleaseType
    \/ CreateVersion
    \/ SetFixVersion
    \/ RenderReleaseNotes
    \/ HandleJIRAError
    \/ GitMergeAndCreateReleaseCommit
    \/ HandleGitError
    \/ GetRepo
    \/ GitCreateTag
    \/ CreateGitRef
    \/ CreateGitRelease
    \/ GitMergeMasterToDevelop
    \/ OtherUserClosesIssue

Spec == Init /\ [][Next]_vars

\* ------------------------------------- bump_version on drawn version names

Triples == {<<a, b, c>> : a \in 0..MaxComp, b \in 0..MaxComp, c \in 0..MaxComp}

\* Version names of one, two and four components.
OtherArities ==
    {join(".", [i \in 1..n |-> str(c)]) : n \in {1, 2, 4}, c \in 0..1}

DrawnVersionNames == {VersionString(t) : t \in Triples} \cup OtherArities

\* `version` stands before create_version with a drawn previous version name
\* and a drawn release type.
InitBump ==
    /\ jira_previous_version \in {Bound(n) : n \in DrawnVersionNames}
    /\ release_type \in {Bound(ReleaseTypes[k]) : k \in 1..Len(ReleaseTypes)}
    /\ jiraVersions = <<[name |-> jira_previous_version.val]>>
    /\ issues = [i \in IssueIds |->
                    [status |-> "closed", resolution |-> "Fixed",
                     release_type |-> release_type.val, fixVersions |-> {}]]
    /\ InitRepos
    /\ jira_new_version = Unbound
    /\ release_notes = Unbound
    /\ commit_hash = Unbound
    /\ result = NoResult
    /\ trace = <<>>
    /\ pc = "create_version"
    /\ runs = 1
    /\ otherEdits = 0
    /\ qualifyingAtS0 = SearchNoFixVersion(issues)
    /\ changelog_calls = <<>>

NextBump == CreateVersion

SpecBump == InitBump /\ [][NextBump]_vars

\* ------------------------------- get_jira_release_type on drawn issue sets

AllIssueRecords ==
    [status : {"open", "closed"},
     resolution : {"Fixed", "Done", "Won't Fix"},
     release_type : {"Major", "Minor", "Patch", "None"},
     fixVersions : {{}, {V123}}]

\* `version` stands before get_jira_release_type with drawn issues.
InitResolve ==
    /\ issues \in [IssueIds -> AllIssueRecords]
    /\ jiraVersions = <<[name |-> V123]>>
    /\ InitRepos
    /\ jira_previous_version = Bound(V123)
    /\ release_type = Unbound
    /\ jira_new_version = Unbound
    /\ release_notes = Unbound
    /\ commit_hash = Unbound
    /\ result = NoResult
    /\ trace = <<>>
    /\ pc = "release_type"
    /\ runs = 1
    /\ InitHistory

NextResolve == ResolveReleaseType

SpecResolve == InitResolve /\ [][NextResolve]_vars

\* ------------------------------ update_changelog_file on drawn contents

V200 == VersionString(<<2, 0, 0>>)

\* Changelog contents: empty, one line, two lines with a trailing newline.
DrawnContents == {<<>>, <<"#">>, <<"a", "\n", "b", "\n">>}

\* Release notes: empty, one line, one line with a trailing newline.
DrawnNotes == {<<>>, <<"n">>, <<"x", "\n">>}

\* An issue as a run leaves it that tagged it with 2.0.0, an issue closed
\* since, an issue still open.
IssuesAtGitRelease ==
    {[status |-> "closed", resolution |-> "Fixed", release_type |-> "Major",
      fixVersions |-> {V200}],
     [status |-> "closed", resolution |-> "Fixed", release_type |-> "Patch",
      fixVersions |-> {}],
     [status |-> "open", resolution |-> "Unresolved", release_type |-> "Major",
      fixVersions |-> {}]}

\* `version` stands before git_merge_and_create_release_commit, releasing
\* 2.0.0 after 1.2.3, with a drawn changelog and drawn release notes.
InitChangelog ==
    /\ changelog \in DrawnContents
    /\ release_notes \in {Bound(n) : n \in DrawnNotes}
    /\ jiraVersions = <<[name |-> V123], [name |-> V200]>>
    /\ issues \in [IssueIds -> IssuesAtGitRelease]
    /\ master = <<>>
    /\ originMaster = <<>>
    /\ originDevelop = <<>>
    /\ localTags = {}
    /\ gitRefs = {}
    /\ gitReleases = {}
    /\ jira_previous_version = Bound(V123)
    /\ release_type = Bound("Major")
    /\ jira_new_version = Bound(V200)
    /\ commit_hash = Unbound
    /\ result = NoResult
    /\ trace = <<>>
    /\ pc = "git_release"
    /\ runs = 1
    /\ InitHistory

\* The run goes on from there, and further runs follow it.
SpecChangelog == InitChangelog /\ [][Next]_vars

\* ------------------------------------------------------------ properties

TraceIdx == 1..Len(trace)

\* The calls of the run that failed.
Faults == {k \in TraceIdx : ~trace[k].ok}

FirstFault == CHOOSE k \in Faults : \A j \in Faults : k <= j

CountOp(op) == Cardinality({k \in TraceIdx : trace[k].op = op})

OkOp(op) == \E k \in TraceIdx : trace[k].op = op /\ trace[k].ok

VersionNames == {jiraVersions[k].name : k \in 1..Len(jiraVersions)}

Created == OkOp("jira.create_version")

RetagOps == {"transition_issue Reopen Issue", "issue.update",
             "transition_issue Close Issue"}

ReleaseCommandSet == {ReleaseCommands[k] : k \in 1..Len(ReleaseCommands)}

PublishOps == {"git tag", "repo.create_git_ref", "repo.create_git_release"}

\* The k-th call is one of those the saga compensation invariant names: S1's
\* create_version, a transition or update of S2, a git command of S4.
CompensatedCall(k) ==
    \/ trace[k].stage = "S1" /\ trace[k].op = "jira.create_version"
    \/ trace[k].stage = "S2" /\ trace[k].op \in RetagOps
    \/ trace[k].stage = "S4" /\ trace[k].op \in ReleaseCommandSet

NoTagNoRelease ==
    /\ \A k \in TraceIdx : trace[k].op \notin PublishOps
    /\ jira_new_version.bound =>
        /\ TagName(jira_new_version.val) \notin localTags
        /\ \A r \in gitRefs : r.ref # TagName(jira_new_version.val)
        /\ \A r \in gitReleases : r.tag # TagName(jira_new_version.val)

C1_Case ==
    /\ pc = "done"
    /\ Cardinality(Faults) = 1
    /\ \A k \in Faults : CompensatedCall(k)

\* C1: a run with exactly one failure, at create_version, at a transition or
\* update of set_jira_fix_version or at a git command of
\* git_merge_and_create_release_commit, deletes the version it created exactly
\* once (and deletes nothing when it created none), and never runs
\* git_create_tag, create_git_ref or create_git_release.
C1_CompensatedOnce ==
    C1_Case =>
        /\ Created =>
            /\ CountOp("version.delete") = 1
            /\ OkOp("version.delete")
            /\ jira_new_version.val \notin VersionNames
        /\ ~Created => CountOp("version.delete") = 0
        /\ NoTagNoRelease

C1_Witness ==
    /\ C1_Case
    /\ Created
    /\ trace[FirstFault].op = "git merge"
    /\ OkOp("version.delete")
    /\ jira_new_version.val \notin VersionNames

Published == OkOp("repo.create_git_ref") /\ OkOp("repo.create_git_release")

\* C2: after a run that ended without creating both the tag ref and the
\* release on the code host, the version the run created is attached to no
\* issue as a fix-version.
C2_NeverLeftAttached ==
    (pc = "done" /\ jira_new_version.bound /\ ~Published) =>
        \A i \in IssueIds : jira_new_version.val \notin issues[i].fixVersions

\* C3: every invocation ends by returning a message to its caller; no
\* failure of a stage leaves `version` as an exception.
C3_AlwaysTerminalMessage ==
    pc = "done" => result.kind = "returned"

FailureMessages == {"operation failed, version deleted",
                    "request failed, cleanup failed"}

C4_Case ==
    /\ pc = "done"
    /\ Faults # {}
    /\ \/ trace[FirstFault].op = "jira.create_version"
       \/ trace[FirstFault].stage = "S2" /\ trace[FirstFault].op \in RetagOps

\* C4: when create_version fails, or a transition or update of
\* set_jira_fix_version fails, the run calls version.delete() if and only if
\* the version was created, and returns a failure report tagged JIRA.
C4_TrackerFailureReported ==
    C4_Case =>
        /\ CountOp("version.delete") = (IF Created THEN 1 ELSE 0)
        /\ result.kind = "returned"
        /\ result.message \in FailureMessages
        /\ result.failed_command = "JIRA"

C5_Case ==
    /\ pc = "done"
    /\ Faults # {}
    /\ trace[FirstFault].stage = "S4"
    /\ trace[FirstFault].op \in ReleaseCommandSet

\* C5 as claimed: when a git command of S4 exits non-zero, the version created
\* in S1 is deleted and the report returned is tagged git, not JIRA.
C5_GitFailureTaggedGit ==
    C5_Case =>
        /\ jira_new_version.val \notin VersionNames
        /\ result.kind = "returned"
        /\ result.failed_command = "git"

\* C5, amended: when a git command of S4 exits non-zero, version.delete() is
\* called exactly once; if it succeeds the version is gone from the tracker
\* and the report is the version-deleted report tagged git, not JIRA; if it
\* fails the version stays and the report is the cleanup-failed report with
\* the project key and the version name.
C5_GitFailureCompensated ==
    C5_Case =>
        /\ CountOp("version.delete") = 1
        /\ result.kind = "returned"
        /\ result.project_key = PROJECT_KEY
        /\ IF OkOp("version.delete")
           THEN /\ jira_new_version.val \notin VersionNames
                /\ result.message = "operation failed, version deleted"
                /\ result.failed_command = "git"
           ELSE /\ jira_new_version.val \in VersionNames
                /\ result.message = "request failed, cleanup failed"
                /\ result.version = jira_new_version.val

C5_Witness ==
    /\ C5_Case
    /\ trace[FirstFault].op = "git merge"
    /\ OkOp("version.delete")
    /\ jira_new_version.val \notin VersionNames
    /\ result.failed_command = "git"

\* C6: when everything up to the code-host release succeeded and a command of
\* git_merge_master_to_develop fails, the run still returns the success
\* summary.
C6_ForwardMergeFailureIsWarning ==
    (pc = "done" /\ \E k \in Faults : trace[k].stage = "S6") =>
        /\ result.kind = "returned"
        /\ result.message = "release completed"

C7_Case ==
    /\ pc = "done"
    /\ \E k \in Faults : trace[k].op = "version.delete"

\* C7: version.delete() is never called twice in a run; when it fails, after
\* a tracker failure or a git failure, the version is still in the tracker
\* and the report returned is the cleanup-failed report carrying the project
\* key and the name of the orphaned version.
C7_CleanupFailureReported ==
    /\ CountOp("version.delete") <= 1
    /\ C7_Case =>
        /\ jira_new_version.val \in VersionNames
        /\ result.kind = "returned"
        /\ result.message = "request failed, cleanup failed"
        /\ result.project_key = PROJECT_KEY
        /\ result.version = jira_new_version.val

C7_Witness ==
    /\ C7_Case
    /\ \E k \in Faults : trace[k].stage = "S4" /\ trace[k].op = "git push"
    /\ jira_new_version.val \in VersionNames
    /\ result.version = jira_new_version.val

\* Major > Minor > Patch
Severity(t) ==
    CASE t = "Major" -> 3
      [] t = "Minor" -> 2
      [] t = "Patch" -> 1

\* The issues that are closed, resolved Fixed or Done, without fix-version
\* and tagged Major, Minor or Patch.
TaggedQualifying ==
    {i \in IssueIds :
        /\ issues[i].status = "closed"
        /\ issues[i].resolution \in {"Fixed", "Done"}
        /\ issues[i].fixVersions = {}
        /\ issues[i].release_type \in {"Major", "Minor", "Patch"}}

\* C8: get_jira_release_type returns the greatest release type, in the order
\* Major > Minor > Patch, among the qualifying issues, and returns one
\* whenever a tagged qualifying issue exists and no search fails.
C8_MaxSeverity ==
    /\ pc = "create_version" =>
        /\ \E i \in TaggedQualifying : issues[i].release_type = release_type.val
        /\ \A i \in TaggedQualifying :
              Severity(issues[i].release_type) <= Severity(release_type.val)
    /\ (pc \in {"done", "except_jira"} /\ Faults = {}) => TaggedQualifying = {}

C8_Witness ==
    /\ pc = "create_version"
    /\ release_type.val = "Major"
    /\ \E i \in TaggedQualifying : issues[i].release_type = "Patch"

\* The run ended in get_jira_release_type with every search answered.
ResolutionEndedRun ==
    /\ pc \in {"done", "except_jira"}
    /\ Len(trace) > 0
    /\ trace[Len(trace)].stage = "S0"
    /\ trace[Len(trace)].op = "jira.search_issues"
    /\ trace[Len(trace)].ok

\* C9: release-type resolution returns a type only when a tagged qualifying
\* issue exists and otherwise fails with NoJIRAIssuesFoundError; the run that
\* hit the error made tracker reads only: no version created, no issue
\* changed, no git command, no tag, no code-host release.
C9_NoQualifyingIssues ==
    /\ pc = "create_version" => TaggedQualifying # {}
    /\ ResolutionEndedRun =>
        /\ pc = "done"
        /\ result.exc = "NoJIRAIssuesFoundError"
    /\ (pc = "done" /\ result.exc = "NoJIRAIssuesFoundError") =>
        /\ TaggedQualifying = {}
        /\ \A k \in TraceIdx : trace[k].stage = "S0"
        /\ ~jira_new_version.bound
        /\ runs = 1 =>
            /\ jiraVersions \in InitVersionLists
            /\ issues \in [IssueIds -> IssueProfiles]
            /\ InitRepos

C9_Witness ==
    /\ pc = "done"
    /\ result.exc = "NoJIRAIssuesFoundError"
    /\ \E i \in IssueIds : Qualifying(issues, i) /\ issues[i].release_type = "None"

\* A name of exactly three dot-separated runs of digits.
WellFormed(s) ==
    LET parts == split(s, ".", Len(s))
    IN  Len(parts) = 3 /\ \A i \in 1..3 : IntOk(parts[i])

Components(s) ==
    LET parts == split(s, ".", Len(s))
    IN  <<int(parts[1]), int(parts[2]), int(parts[3])>>

\* Semantic-version order on triples.
SemverLess(a, b) ==
    \/ a[1] < b[1]
    \/ a[1] = b[1] /\ a[2] < b[2]
    \/ a[1] = b[1] /\ a[2] = b[2] /\ a[3] < b[3]

\* C10: for a well-formed previous version v and a release type t,
\* bump_version returns a version that is greater than v in semantic-version
\* order, whose component at t's index is v's plus one, whose components
\* after it are 0 and whose components before it are v's.
C10_BumpVersion ==
    (pc # "create_version" /\ WellFormed(jira_previous_version.val)) =>
        /\ result.exc \notin {"ValueError", "IndexError"}
        /\ jira_new_version.bound =>
            /\ WellFormed(jira_new_version.val)
            /\ LET v  == Components(jira_previous_version.val)
                   n  == Components(jira_new_version.val)
                   rt == Severity(release_type.val)
               IN  /\ SemverLess(v, n)
                   /\ jira_new_version.val = VersionString(n)
                   /\ \A k \in 1..3 :
                        n[k] = IF k + rt < 4 THEN v[k]
                               ELSE IF k + rt = 4 THEN v[k] + 1
                               ELSE 0

C10_Witness ==
    /\ pc = "fix_version"
    /\ jira_previous_version.val = VersionString(<<1, 9, 9>>)
    /\ release_type.val = "Minor"
    /\ jira_new_version.val = VersionString(<<1, 10, 0>>)

\* The number of dot-separated components of a name.
Arity(s) == Len(split(s, ".", Len(s)))

\* C11: for a previous version name that has not exactly three dot-separated
\* components, bump_version raises for every release type: create_version is
\* never called with a bumped name.
C11_WrongArityFails ==
    (pc # "create_version" /\ Arity(jira_previous_version.val) # 3) =>
        /\ CountOp("jira.create_version") = 0
        /\ ~jira_new_version.bound
        /\ result.exc \in {"ValueError", "IndexError"}

\* A run that has ended, in which S0 resolved a release type, no call failed
\* and no other user changed the tracker.
C12_Case ==
    /\ pc = "done"
    /\ release_type.bound
    /\ Faults = {}
    /\ otherEdits = 0

\* C12: a run in which no step fails and nobody else changes the tracker
\* creates the version bump_version(previous, resolved type), leaves every
\* issue that qualified at S0 closed with that version among its
\* fix-versions, creates the tag "v" + name locally and on the code host
\* with a release for it, and returns the success summary.
C12_HappyPath ==
    C12_Case =>
        LET b == bump_version(jira_previous_version.val, release_type.val)
            tag == <<"v">> \o b.value
        IN  /\ b.ok
            /\ jira_new_version = Bound(b.value)
            /\ b.value \in VersionNames
            /\ \A i \in qualifyingAtS0 :
                /\ b.value \in issues[i].fixVersions
                /\ issues[i].status = "closed"
            /\ tag \in localTags
            /\ [ref |-> tag, sha |-> commit_hash.val] \in gitRefs
            /\ \E r \in gitReleases : r.tag = tag /\ r.name = b.value
            /\ result.kind = "returned"
            /\ result.message = "release completed"
            /\ result.version = tag

\* The scenario of the specification: previous version 1.2.3, a Major and a
\* Patch issue qualify, the run ends having released 2.0.0.
C12_Witness ==
    /\ C12_Case
    /\ jira_previous_version = Bound(V123)
    /\ qualifyingAtS0 = IssueIds
    /\ \E i, j \in IssueIds : /\ issues[i].release_type = "Major"
                              /\ issues[j].release_type = "Patch"
    /\ jira_new_version = Bound(VersionString(<<2, 0, 0>>))
    /\ result.message = "release completed"

\* The version list of the tracker holds well-formed names in strictly
\* increasing semantic-version order.
StrictlyIncreasing(versions) ==
    /\ \A k \in 1..Len(versions) : WellFormed(versions[k].name)
    /\ \A j, k \in 1..Len(versions) :
        j < k => SemverLess(Components(versions[j].name),
                            Components(versions[k].name))

\* C13: after any sequence of sequential runs, whatever their outcomes, the
\* version list of the tracker is strictly increasing in semantic-version
\* order (so no name is present twice), and a version created in S1 exceeds
\* every version that was present when it was created.
C13_VersionsIncrease ==
    /\ StrictlyIncreasing(jiraVersions)
    /\ (pc = "fix_version" /\ jira_new_version.bound) =>
        /\ jiraVersions[Len(jiraVersions)].name = jira_new_version.val
        /\ SemverLess(Components(jira_previous_version.val),
                      Components(jira_new_version.val))

\* A second run has created its version on top of the one the first run
\* left behind.
C13_Witness ==
    /\ runs = 2
    /\ pc = "fix_version"
    /\ Len(jiraVersions) = 3
    /\ jiraVersions[3].name = jira_new_version.val

\* s is the end of t.
IsSuffix(s, t) ==
    /\ Len(s) <= Len(t)
    /\ \A k \in 1..Len(s) : s[k] = t[Len(t) - Len(s) + k]

\* The calls k..n of update_changelog_file all returned.
AllReturned(k, n) == \A j \in k..n : changelog_calls[j].ok

\* C14: update_changelog_file is prepend-only: after a call that returned,
\* the changelog is the notes, a newline and the contents the call found;
\* after two successive calls that returned it is the second notes, a
\* newline, the first notes, a newline and the contents the first call
\* found; the contents a call found stay a suffix of the changelog as long as
\* the calls return.
C14_PrependOnly ==
    LET n == Len(changelog_calls)
    IN  /\ (n >= 1 /\ AllReturned(n, n)) =>
              changelog = changelog_calls[n].release_notes \o <<"\n">>
                            \o changelog_calls[n].original_contents
        /\ (n >= 2 /\ AllReturned(n - 1, n)) =>
              changelog = changelog_calls[n].release_notes \o <<"\n">>
                            \o changelog_calls[n - 1].release_notes \o <<"\n">>
                            \o changelog_calls[n - 1].original_contents
        /\ \A k \in 1..n :
              AllReturned(k, n) =>
                  IsSuffix(changelog_calls[k].original_contents, changelog)

\* Two successive calls returned, on a changelog of two lines, with
\* different notes.
C14_Witness ==
    /\ Len(changelog_calls) = 2
    /\ AllReturned(1, 2)
    /\ changelog_calls[1].original_contents = <<"a", "\n", "b", "\n">>
    /\ changelog_calls[1].release_notes = <<"x", "\n">>
    /\ changelog_calls[2].release_notes # changelog_calls[1].release_notes

\* The k-th call of the run is the release command `op` of S4.
IsReleaseCommand(k, op) == trace[k].stage = "S4" /\ trace[k].op = op

\* C15: in S4 the changelog is written only after `git fetch` and the
\* checkout of the release branch both succeeded, and before the commit; when
\* fetch or that checkout fails the changelog has not been written.
C15_ChangelogAfterCheckout ==
    /\ \A k \in TraceIdx :
        (trace[k].op = "changelog write") =>
            /\ \E j \in 1..(k - 1) : IsReleaseCommand(j, "git fetch") /\ trace[j].ok
            /\ \E j \in 1..(k - 1) :
                    IsReleaseCommand(j, "git checkout release") /\ trace[j].ok
            /\ \A j \in 1..(k - 1) : ~IsReleaseCommand(j, "git commit")
    /\ (\E k \in TraceIdx :
            /\ ~trace[k].ok
            /\ \/ IsReleaseCommand(k, "git fetch")
               \/ IsReleaseCommand(k, "git checkout release")) =>
        ~OkOp("changelog write")

\* The position in ReleaseCommands of a command of S4.
ReleasePosition(op) == CHOOSE p \in 1..Len(ReleaseCommands) : ReleaseCommands[p] = op

\* The k-th call of the run is a git command of S4 that exited non-zero.
FailedReleaseCommand(k) ==
    /\ trace[k].stage = "S4"
    /\ trace[k].op \in ReleaseCommandSet
    /\ ~trace[k].ok

\* C16: when a git command of S4 exits non-zero, no later command of S4 is
\* executed in that run and no commit hash is returned; after a failure at
\* or before the merge the trunk is not merged, and after a failure at or
\* before the push the trunk is not pushed.
C16_AbortsAfterFailure ==
    \A k \in TraceIdx :
        FailedReleaseCommand(k) =>
            LET p == ReleasePosition(trace[k].op)
            IN  /\ \A j \in TraceIdx :
                    (trace[j].stage = "S4" /\ trace[j].op \in ReleaseCommandSet
                        /\ j # k) =>
                        j < k /\ trace[j].ok /\ ReleasePosition(trace[j].op) < p
                /\ \A j \in (k + 1)..Len(trace) : trace[j].stage = "undo"
                /\ ~commit_hash.bound
                /\ (p <= 6) => CountOp("git push") = 0
                /\ (p <= 6 /\ runs = 1) => master = <<>>
                /\ (p <= 7 /\ runs = 1) => originMaster = <<>>

\* The merge into the trunk failed and the run has ended.
C16_Witness ==
    /\ pc = "done"
    /\ \E k \in TraceIdx : FailedReleaseCommand(k) /\ trace[k].op = "git merge"

\* The changelog could not be read or written in S4.
ChangelogFailed ==
    \E k \in TraceIdx :
        /\ trace[k].stage = "S4"
        /\ trace[k].op \in {"changelog read", "changelog write"}
        /\ ~trace[k].ok

\* C17: when the changelog cannot be read or written in S4, the run ends as
\* after a failed git command: the version created in S1 is deleted, no tag
\* and no release is created, and a failure report is returned.
C17_ChangelogFailureCompensated ==
    (pc = "done" /\ ChangelogFailed) =>
        /\ CountOp("version.delete") = 1
        /\ jira_new_version.val \notin VersionNames
        /\ NoTagNoRelease
        /\ result.kind = "returned"
        /\ result.message \in FailureMessages

\* C18: every issue to which set_jira_fix_version added the new fix-version
\* was closed with a qualifying resolution and without a fix-version when
\* get_jira_release_type resolved the release type, also when other users
\* close issues between the two queries.
C18_RetaggedQualifiedAtS0 ==
    \A k \in TraceIdx :
        (trace[k].stage = "S2" /\ trace[k].op = "issue.update" /\ trace[k].ok) =>
            trace[k].arg \in qualifyingAtS0

\* The place of a stage in the saga; the compensation comes last.
StageRank(stage) ==
    CASE stage = "S0" -> 0 [] stage = "S1" -> 1 [] stage = "S2" -> 2
      [] stage = "S3" -> 3 [] stage = "S4" -> 4 [] stage = "S5" -> 5
      [] stage = "S6" -> 6 [] stage = "undo" -> 7

\* Some call before the k-th is `op` of `stage` and succeeded.
Preceded(k, stage, op) ==
    \E j \in 1..(k - 1) :
        trace[j].stage = stage /\ trace[j].op = op /\ trace[j].ok

\* What must have succeeded before the k-th call of the run.
InSagaOrder(k) ==
    LET c == trace[k]
    IN  /\ c.stage = "S1" =>
            release_type.bound /\ Preceded(k, "S0", "jira.search_issues")
        /\ c.stage = "S2" => Preceded(k, "S1", "jira.create_version")
        /\ c.stage = "S4" =>
            /\ Preceded(k, "S3", "jira.search_issues")
            /\ \A i \in 1..(k - 1) :
                (trace[i].stage = "S2" /\ trace[i].arg # 0) =>
                    \E j \in 1..(k - 1) :
                        /\ trace[j].op = "transition_issue Close Issue"
                        /\ trace[j].arg = trace[i].arg
                        /\ trace[j].ok
        /\ (c.stage = "S5" /\ c.op = "git tag") =>
            /\ Preceded(k, "S4", "git push")
            /\ Preceded(k, "S4", "git rev-parse")
            /\ commit_hash.bound
        /\ c.op = "repo.create_git_ref" => Preceded(k, "S5", "git tag")
        /\ c.op = "repo.create_git_release" =>
            Preceded(k, "S5", "repo.create_git_ref")
        /\ c.stage = "S6" => Preceded(k, "S5", "repo.create_git_release")

\* C19: the external calls of a run happen in saga order, each at most once
\* (the searches of S0: once per release type), nothing but the compensation
\* follows a failed call, no failed call is repeated, and the tag ref on the
\* code host points at the commit hash S4 returned.
C19_SagaOrder ==
    /\ \A k \in TraceIdx : InSagaOrder(k)
    /\ \A j, k \in TraceIdx :
        j < k =>
            /\ StageRank(trace[j].stage) <= StageRank(trace[k].stage)
            /\ ~trace[j].ok => trace[k].stage = "undo"
            /\ ( /\ trace[j].stage = trace[k].stage
                 /\ trace[j].op = trace[k].op
                 /\ trace[j].arg = trace[k].arg )
                    => /\ trace[j].stage = "S0"
                       /\ trace[j].op = "jira.search_issues"
    /\ Cardinality({k \in TraceIdx : trace[k].op = "jira.search_issues"
                                      /\ trace[k].stage = "S0"})
            <= Len(ReleaseTypes)
    /\ OkOp("repo.create_git_ref") =>
        /\ commit_hash.bound
        /\ commit_hash.val = originMaster
        /\ [ref |-> <<"v">> \o jira_new_version.val, sha |-> commit_hash.val]
                \in gitRefs

\* A run went through the whole saga, the forward merge included.
C19_Witness ==
    /\ pc = "done"
    /\ OkOp("git push develop")
    /\ OkOp("repo.create_git_release")
    /\ CountOp("issue.update") = NumIssues

\* C20: when a run has ended, whatever its outcome, every issue that
\* set_jira_fix_version transitioned to reopened is closed again.
C20_ReopenedAreClosedAgain ==
    pc = "done" =>
        \A k \in TraceIdx :
            ( /\ trace[k].stage = "S2"
              /\ trace[k].op = "transition_issue Reopen Issue"
              /\ trace[k].ok )
                => issues[trace[k].arg].status = "closed"

====
